---- MODULE Spec2Model ----
(***************************************************************************)
(* FLARM flight-log access of XCSoar (src/Device/Driver/FLARM/Logger.cpp): *)
(* the metadata-line parser (ParseDate, ParseTime, operator+,              *)
(* ParseRecordInfo), the catalogue enumeration (SelectFlight,              *)
(* ReadFlightInfo, ReadFlightList) and the chunked download (both          *)
(* DownloadFlight overloads).                                              *)
(*                                                                         *)
(* C strings are sequences of one-character strings; the terminating NUL   *)
(* is the end of the sequence.  Bytes are naturals 0..255.                 *)
(***************************************************************************)
EXTENDS Integers, Sequences, FiniteSets, TLC

VARIABLES
  \* OperationEnvironment
  cancelled,          \* env.IsCancelled()
  progress_range,     \* env.SetProgressRange()
  progress_position,  \* env.SetProgressPosition()
  \* ParseRecordInfo harness
  p_pc,        \* "input" before the call, "parsed" after
  p_line,      \* the record_info string handed to ParseRecordInfo
  p_flight,    \* what ParseRecordInfo returned / stored into flight
  \* ReadFlightList
  l_pc,        \* "idle", "loop", "selected", "info", "done"
  i,           \* the loop counter, a uint8_t
  flight_list, \* RecordedFlightList
  ack_result,  \* result of SelectFlight(i) in this iteration
  l_result,    \* the value ReadFlightList returned, read once l_pc = "done"
  l_hist,      \* history of the call: what was sent and answered
  \* DownloadFlight
  d_pc,        \* "idle", "selected", "open", "request", "wait", "done"
  d_ack,       \* result of SelectFlight(flight.internal.flarm)
  d_result,    \* the value DownloadFlight returned ("none" before)
  file,        \* what is at path: [exists, content]
  d_hist,      \* history of the call: chunks taken, bytes handed to the sink
  \* operator+ harness
  t_pc,        \* "input" before the addition, "added" after
  t_start,     \* the left operand, a BrokenTime
  t_duration,  \* the right operand, a BrokenTime
  t_end,       \* what operator+ returned
  \* progress harness
  g_pc,        \* "input" before the report, "reported" after
  g_progress,  \* payload byte 2 of a GETIGCDATA reply
  \* Protection.cpp: the flags shared between the threads
  GpsUpdated,
  VarioUpdated,
  CLOSETHREAD,     \* MapWindow::CLOSETHREAD
  DisplayRunning,  \* MapWindow::IsDisplayRunning()
  MapDirty,        \* MapWindow::MapDirty
  \* CalculationThread
  calc_pc,              \* where the thread is, "returned" after return 0
  needcalculationsslow,
  \* InstrumentThread
  inst_pc,              \* where the thread is, "returned" after return 0
  \* history: the GPS updates triggered and processed
  gps_hist

env_vars == <<cancelled, progress_range, progress_position>>

parse_vars == <<p_pc, p_line, p_flight>>

list_vars == <<l_pc, i, flight_list, ack_result, l_result, l_hist>>

download_vars == <<d_pc, d_ack, d_result, file, d_hist>>

time_vars == <<t_pc, t_start, t_duration, t_end>>

progress_vars == <<g_pc, g_progress>>

flag_vars == <<GpsUpdated, VarioUpdated, CLOSETHREAD, DisplayRunning, MapDirty>>

thread_vars == <<flag_vars, calc_pc, needcalculationsslow, inst_pc, gps_hist>>

vars == <<cancelled, progress_range, progress_position,
          p_pc, p_line, p_flight,
          l_pc, i, flight_list, ack_result, l_result, l_hist,
          d_pc, d_ack, d_result, file, d_hist,
          t_pc, t_start, t_duration, t_end,
          g_pc, g_progress,
          GpsUpdated, VarioUpdated, CLOSETHREAD, DisplayRunning, MapDirty,
          calc_pc, needcalculationsslow, inst_pc, gps_hist>>

(***************************************************************************)
(* Bounds of the model                                                     *)
(***************************************************************************)
\* capacity of the RecordedFlightList
MaxFlights == 2

\* only records with an index below this carry a metadata line that parses
MaxReadable == 2

\* the counters of l_hist stop counting here
MaxCount == 3

\* GETIGCDATA requests of one download
MaxChunks == 3

\* log data bytes in one GETIGCDATA payload
MaxData == 2

(***************************************************************************)
(* C library pieces used by the parser                                     *)
(***************************************************************************)
Digits == <<"0", "1", "2", "3", "4", "5", "6", "7", "8", "9">>

IsDigit(c) == \E k \in 1..10 : Digits[k] = c

DigitVal(c) == (CHOOSE k \in 1..10 : Digits[k] = c) - 1

IsSpace(c) == c \in {" ", "\t", "\n", "\r", "\f"}

\* strchr(s, c): 1-based position of the first c in s, 0 for NULL
StrChr(s, c) ==
  IF \E k \in 1..Len(s) : s[k] = c
  THEN CHOOSE k \in 1..Len(s) : s[k] = c /\ \A j \in 1..(k - 1) : s[j] # c
  ELSE 0

\* the string that starts at position k of s
From(s, k) == SubSeq(s, k, Len(s))

RECURSIVE CountSpace(_)
CountSpace(s) ==
  IF s # <<>> /\ IsSpace(Head(s)) THEN 1 + CountSpace(Tail(s)) ELSE 0

RECURSIVE CountDigits(_)
CountDigits(s) ==
  IF s # <<>> /\ IsDigit(Head(s)) THEN 1 + CountDigits(Tail(s)) ELSE 0

RECURSIVE DecimalValue(_, _)
DecimalValue(s, acc) ==
  IF s = <<>> THEN acc ELSE DecimalValue(Tail(s), 10 * acc + DigitVal(Head(s)))

\* strtoul(str, &endptr, 10): skips white space, takes an optional sign and
\* the longest run of digits.  n is endptr - str (0 when nothing was
\* converted), val the converted value (negative stands for the wrapped
\* unsigned value of a negated number).
SignLength(s) == IF s # <<>> /\ Head(s) \in {"+", "-"} THEN 1 ELSE 0

StrToULDigits(str, start, nd) ==
  IF nd = 0
  THEN [val |-> 0, n |-> 0]
  ELSE [val |-> (IF start > 1 /\ str[start - 1] = "-" THEN -1 ELSE 1)
                  * DecimalValue(SubSeq(str, start, start + nd - 1), 0),
        n   |-> start + nd - 1]

StrToULSign(str, start) ==
  StrToULDigits(str, start, CountDigits(From(str, start)))

StrToULSpace(str, ws) ==
  StrToULSign(str, ws + 1 + SignLength(From(str, ws + 1)))

StrToUL(str) == StrToULSpace(str, CountSpace(str))

(***************************************************************************)
(* ParseDate / ParseTime: three strtoul calls; behind the first two the    *)
(* separator must follow, the third only has to convert something.         *)
(***************************************************************************)
NotParsed == [ok |-> FALSE]

\* the character *endptr is sep
EndsAt(str, number, sep) ==
  /\ number.n # 0
  /\ number.n + 1 <= Len(str)
  /\ str[number.n + 1] = sep

ParseThird(v1, v2, c) ==
  [ok |-> c.n # 0, v1 |-> v1, v2 |-> v2, v3 |-> c.val]

ParseSecond(str, sep, v1, b) ==
  IF ~EndsAt(str, b, sep)
  THEN NotParsed
  ELSE ParseThird(v1, b.val, StrToUL(From(str, b.n + 2)))

ParseFirst(str, sep, a) ==
  IF ~EndsAt(str, a, sep)
  THEN NotParsed
  ELSE ParseSecond(From(str, a.n + 2), sep, a.val, StrToUL(From(str, a.n + 2)))

ParseTriple(str, sep) == ParseFirst(str, sep, StrToUL(str))

DateOf(r) ==
  IF r.ok
  THEN [ok |-> TRUE, date |-> [year |-> r.v1, month |-> r.v2, day |-> r.v3]]
  ELSE NotParsed

ParseDate(str) == DateOf(ParseTriple(str, "-"))

TimeOf(r) ==
  IF r.ok
  THEN [ok |-> TRUE, time |-> [hour |-> r.v1, minute |-> r.v2, second |-> r.v3]]
  ELSE NotParsed

ParseTime(str) == TimeOf(ParseTriple(str, ":"))

(***************************************************************************)
(* operator+(BrokenTime &, BrokenTime &)                                   *)
(***************************************************************************)
RECURSIVE CarrySeconds(_)
CarrySeconds(c) ==
  IF c.second > 60
  THEN CarrySeconds([c EXCEPT !.second = @ - 60, !.minute = @ + 1])
  ELSE c

RECURSIVE CarryMinutes(_)
CarryMinutes(c) ==
  IF c.minute > 60
  THEN CarryMinutes([c EXCEPT !.minute = @ - 60, !.hour = @ + 1])
  ELSE c

\* a mutant of TimeAdd: the carries are forgotten
TimeAddNoCarry(a, b) ==
  [hour |-> a.hour + b.hour, minute |-> a.minute + b.minute,
   second |-> a.second + b.second]

TimeAdd(a, b) ==
  CarryMinutes(CarrySeconds([hour   |-> a.hour + b.hour,
                             minute |-> a.minute + b.minute,
                             second |-> a.second + b.second]))

(***************************************************************************)
(* ParseRecordInfo                                                         *)
(***************************************************************************)
DateFieldMaxLen == 10

Unparsed == [ok |-> FALSE]

\* a mutant of IsFilenameField: the comparison is off by one
IsFilenameFieldOffByOne(field) == Len(field) >= DateFieldMaxLen

\* "Check if first field is NOT the date (length > 10)"
IsFilenameField(field) == Len(field) > DateFieldMaxLen

\* From the date field on: record_info is the NUL-terminated date field and
\* p the rest of the line behind the separator that was overwritten.
\* (The tests "p == '\0'" compare the pointer itself with null and never
\* fire, so they do not appear here.)
ParseDurationField(date, start, duration) ==
  IF ~duration.ok THEN Unparsed
  ELSE [ok |-> TRUE, date |-> date, start_time |-> start,
        end_time |-> TimeAdd(start, duration.time)]

FindDurationEnd(date, start, p, k) ==
  IF k = 0 THEN Unparsed
  ELSE ParseDurationField(date, start, ParseTime(SubSeq(p, 1, k - 1)))

ParseStartField(date, start, p) ==
  IF ~start.ok THEN Unparsed
  ELSE FindDurationEnd(date, start.time, p, StrChr(p, "|"))

FindStartEnd(date, p, k) ==
  IF k = 0 THEN Unparsed
  ELSE ParseStartField(date, ParseTime(SubSeq(p, 1, k - 1)), From(p, k + 1))

ParseDateField(d, p) ==
  IF ~d.ok THEN Unparsed
  ELSE FindStartEnd(d.date, p, StrChr(p, "|"))

ParseFields(date_field, p) == ParseDateField(ParseDate(date_field), p)

\* the first field was the filename: the date field ends at the next separator
SkipFilename(p, k) ==
  IF k = 0 THEN Unparsed
  ELSE ParseFields(SubSeq(p, 1, k - 1), From(p, k + 1))

FirstFieldIs(field, p) ==
  IF IsFilenameField(field)
  THEN SkipFilename(p, StrChr(p, "|"))
  ELSE ParseFields(field, p)

FindFirstEnd(record_info, k) ==
  IF k = 0 THEN Unparsed
  ELSE FirstFieldIs(SubSeq(record_info, 1, k - 1), From(record_info, k + 1))

ParseRecordInfo(record_info) ==
  FindFirstEnd(record_info, StrChr(record_info, "|"))

(***************************************************************************)
(* Parser inputs: the two documented lines, and lines put together from    *)
(* an optional leading field, a date field, a start field, a duration      *)
(* field and a tail.                                                       *)
(***************************************************************************)
Line6 == <<"1", "8", "C", "G", "6", "N", "G", "1", ".", "I", "G", "C", "|", "2", "0", "1", "1", "-", "0", "8", "-", "1", "2", "|", "1", "2", ":", "2", "3", ":", "4", "8", "|", "0", "2", ":", "0", "3", ":", "2", "5", "|", "T", "O", "B", "I", "A", "S", " ", "B", "I", "E", "N", "I", "E", "K", "|", "T", "H", "|", "C", "l", "u", "b">>

Line5 == <<"2", "0", "0", "0", "-", "1", "1", "-", "0", "8", "|", "2", "0", ":", "0", "5", ":", "2", "1", "|", "0", "1", ":", "2", "1", ":", "0", "9", "|", "J", ".", "D", "o", "e", "|", "X", "Y", "Z", "|", "1", "5", "M">>

Filenames ==
  { <<"1", "8", "C", "G", "6", "N", "G", "1", ".", "I", "G", "C">>,
    <<"F", "L", "I", "G", "H", "T", "1", ".", "I", "G", "C">>,
    <<"F", "L", "I", "G", "H", "T", ".", "I", "G", "C">>,
    <<"F", "L", "0", "1", ".", "I", "G", "C">> }

DateFields ==
  { <<"2", "0", "1", "1", "-", "0", "8", "-", "1", "2">>,
    <<"2", "0", "0", "0", "-", "1", "1", "-", "0", "8">>,
    <<"0", "2", "0", "1", "1", "-", "0", "8", "-", "1", "2">>,
    <<"2", "0", "1", "1", "/", "0", "8", "/", "1", "2">>,
    <<"2", "0", "1", "1", "-", "0", "8">>,
    <<"2", "0", "1", "1", "-", "0", "8", "-", "1", "x">> }

StartFields ==
  { <<"1", "2", ":", "2", "3", ":", "4", "8">>,
    <<"2", "0", ":", "0", "5", ":", "2", "1">>,
    <<"2", "3", ":", "5", "9", ":", "5", "9">>,
    <<"1", "2", ":", "2", "3">>,
    <<"1", "2", ":", "2", "3", ":", "4", "8", "p", "m">> }

DurationFields ==
  { <<"0", "2", ":", "0", "3", ":", "2", "5">>,
    <<"0", "1", ":", "2", "1", ":", "0", "9">>,
    <<"0", "0", ":", "0", "0", ":", "1", "2">>,
    <<"0", "0", ":", "0", "1", ":", "0", "1">>,
    <<"1", ":", "2">>,
    <<"0", "1", ":", "2", "1", ":", " ", "9">> }

Tails ==
  { <<"|", "J", ".", "D", "o", "e", "|", "X", "Y", "Z", "|", "1", "5", "M">>,
    <<"|">>,
    <<>> }

\* the line without a leading field
BareLines ==
  { d \o <<"|">> \o s \o <<"|">> \o u \o t :
      d \in DateFields, s \in StartFields, u \in DurationFields, t \in Tails }

ParseInputs ==
  {Line6, Line5} \cup BareLines
    \cup { f \o <<"|">> \o l : f \in Filenames, l \in BareLines }

\* the first field of a line, and the line behind its first separator
FirstField(line) == SubSeq(line, 1, StrChr(line, "|") - 1)

WithoutFirstField(line) == From(line, StrChr(line, "|") + 1)

(***************************************************************************)
(* The device link: replies of WaitForACKOrNACK                            *)
(***************************************************************************)
MT_ACK == "ACK"

MT_NACK == "NACK"

MT_ERROR == "ERROR"

Replies == {MT_ACK, MT_NACK, MT_ERROR}

Inc(n) == IF n < MaxCount THEN n + 1 ELSE n

\* SelectFlight(record_number): the frame goes out (sent) or a send fails;
\* a failed send gives MT_ERROR, otherwise the reply decides.
SelectFlightOutcomes ==
  { [sent |-> TRUE, result |-> r] : r \in Replies }
    \cup { [sent |-> FALSE, result |-> MT_ERROR] }

\* GETRECORDINFO payloads: two leading bytes, then the metadata line
InfoHeader == <<"#", "#">>

InfoPayloads ==
  { <<>>, InfoHeader, InfoHeader \o Line5, InfoHeader \o Line6,
    InfoHeader \o <<"2", "0", "1", "1", "|">> }

InfoExchanges ==
  { [sent |-> TRUE, result |-> r, payload |-> d] :
      r \in Replies, d \in InfoPayloads }
    \cup { [sent |-> FALSE, result |-> MT_ERROR, payload |-> <<>>] }

\* ReadFlightInfo(flight): the parsed record, or Unparsed for "return false".
\* The line is read up to the end of the payload (the device ends it there).
ReadFlightInfo(x) ==
  IF ~x.sent THEN Unparsed
  ELSE IF x.result # MT_ACK \/ Len(x.payload) <= 2 THEN Unparsed
  ELSE ParseRecordInfo(From(x.payload, 3))

\* what ReadFlightInfo makes of each exchange
FlightInfoOf == [x \in InfoExchanges |-> ReadFlightInfo(x)]

\* what the device may answer to GETRECORDINFO for record index n
InfoExchangesFor(n) ==
  IF n < MaxReadable
  THEN InfoExchanges
  ELSE { x \in InfoExchanges : ~FlightInfoOf[x].ok }

(***************************************************************************)
(* ReadFlightList                                                          *)
(***************************************************************************)
\* a mutant of ListFull: the loop goes round once more
ListFullOneLate == Len(flight_list) > MaxFlights

\* flight_list.full()
ListFull == Len(flight_list) >= MaxFlights

NoHistory ==
  [n_select |-> 0, n_info |-> 0, n_acks |-> 0, n_info_ok |-> 0,
   last_select |-> -1,
   cancelled_at_call |-> FALSE, cancel_at_check |-> FALSE,
   sent_while_cancelled |-> FALSE,
   send_failed |-> FALSE, sent_after_send_failure |-> FALSE]

ListIdle ==
  /\ l_pc = "idle"
  /\ i = 0
  /\ flight_list = <<>>
  /\ ack_result = "none"
  /\ l_result = FALSE
  /\ l_hist = NoHistory

\* entry of ReadFlightList: env.SetProgressRange(10), i = 0
CallReadFlightList ==
  /\ l_pc = "idle"
  /\ l_pc' = "loop"
  /\ i' = 0
  /\ progress_range' = 10
  /\ l_hist' = [l_hist EXCEPT !.cancelled_at_call = cancelled]
  /\ UNCHANGED <<flight_list, ack_result, l_result, cancelled,
                 progress_position>>
  /\ UNCHANGED <<parse_vars, download_vars, time_vars, progress_vars,
                 thread_vars>>

\* loop condition fails: the list is full, return true
RFL_ListFull ==
  /\ l_pc = "loop"
  /\ ListFull
  /\ l_pc' = "done"
  /\ l_result' = TRUE
  /\ UNCHANGED <<i, flight_list, ack_result, l_hist, env_vars>>
  /\ UNCHANGED <<parse_vars, download_vars, time_vars, progress_vars,
                 thread_vars>>

\* env.SetProgressPosition(i % 10); ack_result = SelectFlight(i)
RFL_SelectFlight ==
  /\ l_pc = "loop"
  /\ ~ListFull
  /\ progress_position' = i % 10
  /\ \E x \in SelectFlightOutcomes :
       /\ ack_result' = x.result
       /\ l_hist' = [l_hist EXCEPT
                       !.n_select = IF x.sent THEN Inc(@) ELSE @,
                       !.last_select = IF x.sent THEN i ELSE @,
                       !.sent_while_cancelled = @ \/ (x.sent /\ cancelled),
                       !.send_failed = @ \/ ~x.sent,
                       !.sent_after_send_failure =
                          @ \/ (x.sent /\ l_hist.send_failed)]
  /\ l_pc' = "selected"
  /\ UNCHANGED <<i, flight_list, l_result, cancelled, progress_range>>
  /\ UNCHANGED <<parse_vars, download_vars, time_vars, progress_vars,
                 thread_vars>>

\* a mutant of RFL_CheckSelect: MT_ERROR is not told from MT_ACK
RFL_CheckSelectIgnoresError ==
  /\ l_pc = "selected"
  /\ l_hist' = [l_hist EXCEPT !.cancel_at_check = cancelled,
                              !.n_acks = IF ack_result = MT_ACK THEN Inc(@) ELSE @]
  /\ IF ack_result = MT_NACK
     THEN l_pc' = "done" /\ l_result' = TRUE
     ELSE IF cancelled
     THEN l_pc' = "done" /\ l_result' = FALSE
     ELSE l_pc' = "info" /\ l_result' = l_result
  /\ UNCHANGED <<i, flight_list, ack_result, env_vars>>
  /\ UNCHANGED <<parse_vars, download_vars, time_vars, progress_vars,
                 thread_vars>>

\* the two tests behind SelectFlight(i)
RFL_CheckSelect ==
  /\ l_pc = "selected"
  /\ l_hist' = [l_hist EXCEPT !.cancel_at_check = cancelled,
                              !.n_acks = IF ack_result = MT_ACK THEN Inc(@) ELSE @]
  /\ IF ack_result = MT_NACK
     THEN l_pc' = "done" /\ l_result' = TRUE
     ELSE IF ack_result # MT_ACK \/ cancelled
     THEN l_pc' = "done" /\ l_result' = FALSE
     ELSE l_pc' = "info" /\ l_result' = l_result
  /\ UNCHANGED <<i, flight_list, ack_result, env_vars>>
  /\ UNCHANGED <<parse_vars, download_vars, time_vars, progress_vars,
                 thread_vars>>

\* a mutant of AppendIfRead: the record is appended whatever ReadFlightInfo
\* returned
AppendAlways(list, n, info) ==
  Append(list, [flarm |-> n, info |-> info])

\* if (ReadFlightInfo(flight_info)) flight_list.append(flight_info)
AppendIfRead(list, n, info) ==
  IF info.ok THEN Append(list, [flarm |-> n, info |-> info]) ELSE list

\* flight_info.internal.flarm = i; ReadFlightInfo; append; ++i
RFL_ReadFlightInfo ==
  /\ l_pc = "info"
  /\ \E x \in InfoExchangesFor(i) :
       /\ flight_list' = AppendIfRead(flight_list, i, FlightInfoOf[x])
       /\ l_hist' = [l_hist EXCEPT
                       !.n_info = IF x.sent THEN Inc(@) ELSE @,
                       !.n_info_ok = IF FlightInfoOf[x].ok THEN @ + 1 ELSE @,
                       !.sent_while_cancelled = @ \/ (x.sent /\ cancelled),
                       !.send_failed = @ \/ ~x.sent,
                       !.sent_after_send_failure =
                          @ \/ (x.sent /\ l_hist.send_failed)]
  /\ i' = (i + 1) % 256
  /\ ack_result' = "none"
  /\ l_pc' = "loop"
  /\ UNCHANGED <<l_result, env_vars>>
  /\ UNCHANGED <<parse_vars, download_vars, time_vars, progress_vars,
                 thread_vars>>

(***************************************************************************)
(* DownloadFlight: the sink and the GETIGCDATA payloads                    *)
(***************************************************************************)
\* the stream terminator 0x1A
Sentinel == 26

DataBytes == {Sentinel, 65}

\* the full range of the byte is covered by SpecProgress
ProgressBytes == {200}

\* what may be at path before the call
OldFiles == { [exists |-> FALSE, content |-> <<>>],
              [exists |-> TRUE, content |-> <<79>>] }

\* payloads: bytes 0-1, the progress byte, then up to MaxData data bytes;
\* shorter payloads are cut off earlier
IgcPayloads ==
  { <<>>, <<0>>, <<0, 0>> }
    \cup { <<0, 0, g>> : g \in ProgressBytes }
    \cup UNION { { <<0, 0, g>> \o d : g \in ProgressBytes, d \in [1..n -> DataBytes] }
                 : n \in 1..MaxData }

IgcExchanges == { [result |-> r, payload |-> d] : r \in Replies, d \in IgcPayloads }

Min(a, b) == IF a < b THEN a ELSE b

\* a mutant of ProgressPosition: the byte is reported as it came
ProgressPositionUnclamped(progress) == progress

\* progress = *(data.begin() + 2); std::min((unsigned)progress, 100u)
ProgressPosition(progress) == Min(progress, 100)

\* *(data.end() - 1): data holds the length bytes of the payload
LastByte(payload) == payload[Len(payload)]

\* a mutant of IgcData: the sentinel is written with the data
IgcDataKeepsSentinel(payload) == SubSeq(payload, 4, Len(payload))

\* length -= 3; if (is_last_packet) length--; the bytes igc_data[0..length)
IgcData(payload) ==
  LET length == IF LastByte(payload) = Sentinel
                THEN (Len(payload) - 3) - 1
                ELSE Len(payload) - 3
  IN  SubSeq(payload, 4, 3 + length)

\* BinaryWriter writer(path): the file is created empty, or the open fails
\* and leaves path as it was
BinaryWriterOpen(f, ok) ==
  IF ok THEN [exists |-> TRUE, content |-> <<>>] ELSE f

\* writer.Write(igc_data, 1, length) that gets k of the bytes into the file
BinaryWriterWrite(f, data, k) ==
  [f EXCEPT !.content = @ \o SubSeq(data, 1, k)]

\* File::Delete(path)
FileDelete(f) == [exists |-> FALSE, content |-> <<>>]

NoDownloadHistory ==
  [chunks |-> <<>>, handed |-> <<>>, n_select |-> 0, n_igc |-> 0,
   sink_opened |-> FALSE, write_failed |-> FALSE, deleted |-> FALSE,
   reply |-> [result |-> "none", length |-> 0],
   sent_while_cancelled |-> FALSE, file_before |-> [exists |-> FALSE, content |-> <<>>]]

DownloadIdle ==
  /\ d_pc = "idle"
  /\ d_ack = "none"
  /\ d_result = "none"
  /\ file = [exists |-> FALSE, content |-> <<>>]
  /\ d_hist = NoDownloadHistory

\* DownloadFlight(flight, path, env) starts with SelectFlight
DF_SelectFlight ==
  /\ d_pc = "idle"
  /\ \E x \in SelectFlightOutcomes :
       /\ d_ack' = x.result
       /\ d_hist' = [d_hist EXCEPT
                       !.n_select = IF x.sent THEN @ + 1 ELSE @,
                       !.sent_while_cancelled = @ \/ (x.sent /\ cancelled)]
  /\ d_pc' = "selected"
  /\ UNCHANGED <<d_result, file, env_vars>>
  /\ UNCHANGED <<parse_vars, list_vars, time_vars, progress_vars,
                 thread_vars>>

\* a mutant of DF_CheckSelect: only MT_ERROR stops the download
DF_CheckSelectTakesNack ==
  /\ d_pc = "selected"
  /\ IF d_ack = MT_ERROR \/ cancelled
     THEN d_pc' = "done" /\ d_result' = FALSE
     ELSE d_pc' = "open" /\ d_result' = d_result
  /\ UNCHANGED <<d_ack, file, d_hist, env_vars>>
  /\ UNCHANGED <<parse_vars, list_vars, time_vars, progress_vars,
                 thread_vars>>

\* if (ack_result != MT_ACK || env.IsCancelled()) return false;
DF_CheckSelect ==
  /\ d_pc = "selected"
  /\ IF d_ack # MT_ACK \/ cancelled
     THEN d_pc' = "done" /\ d_result' = FALSE
     ELSE d_pc' = "open" /\ d_result' = d_result
  /\ UNCHANGED <<d_ack, file, d_hist, env_vars>>
  /\ UNCHANGED <<parse_vars, list_vars, time_vars, progress_vars,
                 thread_vars>>

\* a mutant of DF_Failed: the partial file is left behind
DF_FailedKeepsFile(f, h) ==
  /\ file' = f
  /\ d_hist' = h
  /\ d_result' = FALSE
  /\ d_pc' = "done"

\* DownloadFlight(path, env) returned false (its writer is closed by then):
\* File::Delete(path); return false;
DF_Failed(f, h) ==
  /\ file' = FileDelete(f)
  /\ d_hist' = [h EXCEPT !.deleted = TRUE]
  /\ d_result' = FALSE
  /\ d_pc' = "done"

\* BinaryWriter writer(path);
\* if (writer.HasError() || env.IsCancelled()) return false;
\* env.SetProgressRange(100);
DF_OpenWriter ==
  /\ d_pc = "open"
  /\ \E ok \in BOOLEAN :
       IF ~ok \/ cancelled
       THEN /\ DF_Failed(BinaryWriterOpen(file, ok),
                         [d_hist EXCEPT !.sink_opened = ok])
            /\ UNCHANGED progress_range
       ELSE /\ file' = BinaryWriterOpen(file, ok)
            /\ d_hist' = [d_hist EXCEPT !.sink_opened = ok]
            /\ progress_range' = 100
            /\ d_pc' = "request"
            /\ d_result' = d_result
  /\ UNCHANGED <<d_ack, cancelled, progress_position>>
  /\ UNCHANGED <<parse_vars, list_vars, time_vars, progress_vars,
                 thread_vars>>

\* header = PrepareFrameHeader(MT_GETIGCDATA);
\* if (!SendStartByte() || !SendFrameHeader(header, 1000) || env.IsCancelled())
\*   return false;
DF_SendRequest ==
  /\ d_pc = "request"
  /\ d_hist.n_igc < MaxChunks
  /\ \E sent \in BOOLEAN :
       LET h == [d_hist EXCEPT
                   !.n_igc = IF sent THEN @ + 1 ELSE @,
                   !.sent_while_cancelled = @ \/ (sent /\ cancelled)]
       IN  IF ~sent \/ cancelled
           THEN DF_Failed(file, h)
           ELSE /\ d_hist' = h
                /\ d_pc' = "wait"
                /\ UNCHANGED <<d_result, file>>
  /\ UNCHANGED <<d_ack, env_vars>>
  /\ UNCHANGED <<parse_vars, list_vars, time_vars, progress_vars,
                 thread_vars>>

\* what DownloadFlight remembers of the reply it has just waited for
ReplyOf(x) == [result |-> x.result, length |-> Len(x.payload)]

\* a mutant of ChunkRejected: a payload of three bytes is taken
ChunkRejectedBelowThree(x, c) ==
  x.result # MT_ACK \/ Len(x.payload) < 3 \/ c

\* if (!ack || length <= 3 || env.IsCancelled()) return false;
ChunkRejected(x, c) ==
  x.result # MT_ACK \/ Len(x.payload) <= 3 \/ c

\* ack = WaitForACKOrNACK(...) == MT_ACK;
\* if (!ack || length <= 3 || env.IsCancelled()) return false;
\* progress, is_last_packet, writer.Write(...), break or loop
DF_ReceiveChunk ==
  /\ d_pc = "wait"
  /\ \E x \in IgcExchanges :
       IF ChunkRejected(x, cancelled)
       THEN /\ DF_Failed(file, [d_hist EXCEPT !.reply = ReplyOf(x)])
            /\ UNCHANGED progress_position
       ELSE /\ progress_position' = ProgressPosition(x.payload[3])
            /\ \E k \in 0..Len(IgcData(x.payload)) :
                 /\ file' = BinaryWriterWrite(file, IgcData(x.payload), k)
                 /\ d_hist' = [d_hist EXCEPT
                      !.reply = ReplyOf(x),
                      !.chunks = Append(@, x.payload),
                      !.handed = @ \o IgcData(x.payload),
                      !.write_failed = @ \/ k < Len(IgcData(x.payload))]
            /\ IF LastByte(x.payload) = Sentinel
               THEN d_pc' = "done" /\ d_result' = TRUE
               ELSE d_pc' = "request" /\ d_result' = d_result
  /\ UNCHANGED <<d_ack, cancelled, progress_range>>
  /\ UNCHANGED <<parse_vars, list_vars, time_vars, progress_vars,
                 thread_vars>>

(***************************************************************************)
(* Parser harness                                                          *)
(***************************************************************************)
ParseIdle ==
  /\ p_pc = "idle"
  /\ p_line = <<>>
  /\ p_flight = Unparsed

EnvIdle ==
  /\ cancelled = FALSE
  /\ progress_range = 0
  /\ progress_position = 0

ZeroTime == [hour |-> 0, minute |-> 0, second |-> 0]

TimeIdle ==
  /\ t_pc = "idle"
  /\ t_start = ZeroTime
  /\ t_duration = ZeroTime
  /\ t_end = ZeroTime

ProgressIdle ==
  /\ g_pc = "idle"
  /\ g_progress = 0

\* unprocessed: TriggerGPSUpdate was called and no pass of CalculationThread
\* has seen GpsUpdated at line 295 since
NoGpsHistory == [unprocessed |-> FALSE]

\* the statics of Protection.cpp and MapWindow before anything has run
FlagsClear ==
  /\ GpsUpdated = FALSE
  /\ VarioUpdated = FALSE
  /\ CLOSETHREAD = FALSE
  /\ DisplayRunning = FALSE
  /\ MapDirty = FALSE
  /\ needcalculationsslow = FALSE
  /\ gps_hist = NoGpsHistory

\* CreateCalculationThread has not been called
ThreadsIdle ==
  /\ FlagsClear
  /\ calc_pc = "idle"
  /\ inst_pc = "idle"

ParseInit ==
  /\ p_pc = "input"
  /\ p_line \in ParseInputs
  /\ p_flight = Unparsed
  /\ EnvIdle
  /\ ListIdle
  /\ DownloadIdle
  /\ TimeIdle
  /\ ProgressIdle
  /\ ThreadsIdle

CallParseRecordInfo ==
  /\ p_pc = "input"
  /\ p_flight' = ParseRecordInfo(p_line)
  /\ p_pc' = "parsed"
  /\ UNCHANGED <<p_line, env_vars, list_vars, download_vars, time_vars,
                 progress_vars, thread_vars>>

ParseNext == CallParseRecordInfo

SpecParse == ParseInit /\ [][ParseNext]_vars

(***************************************************************************)
(* operator+ harness: the sum of every start time and duration             *)
(***************************************************************************)
HourValues == {0, 12, 23}

\* minute and second fields, all within 0..59
SixtiethValues == {0, 1, 12, 30, 48, 59}

TimeInputs ==
  { [hour |-> h, minute |-> m, second |-> s] :
      h \in HourValues, m \in SixtiethValues, s \in SixtiethValues }

TimeInit ==
  /\ t_pc = "input"
  /\ t_start \in TimeInputs
  /\ t_duration \in TimeInputs
  /\ t_end = ZeroTime
  /\ EnvIdle
  /\ ParseIdle
  /\ ListIdle
  /\ DownloadIdle
  /\ ProgressIdle
  /\ ThreadsIdle

\* flight.end_time = flight.start_time + duration
CallTimeAdd ==
  /\ t_pc = "input"
  /\ t_end' = TimeAdd(t_start, t_duration)
  /\ t_pc' = "added"
  /\ UNCHANGED <<t_start, t_duration, env_vars, parse_vars, list_vars,
                 download_vars, progress_vars, thread_vars>>

TimeNext == CallTimeAdd

SpecTime == TimeInit /\ [][TimeNext]_vars

(***************************************************************************)
(* Progress harness: every value of payload byte 2, reported after         *)
(* env.SetProgressRange(100)                                               *)
(***************************************************************************)
PayloadBytes == 0..255

ProgressInit ==
  /\ g_pc = "input"
  /\ g_progress \in PayloadBytes
  /\ cancelled = FALSE
  /\ progress_range = 100
  /\ progress_position = 0
  /\ ParseIdle
  /\ ListIdle
  /\ DownloadIdle
  /\ TimeIdle
  /\ ThreadsIdle

\* env.SetProgressPosition(std::min((unsigned)progress, 100u))
ReportProgress ==
  /\ g_pc = "input"
  /\ progress_position' = ProgressPosition(g_progress)
  /\ g_pc' = "reported"
  /\ UNCHANGED <<g_progress, cancelled, progress_range, parse_vars, list_vars,
                 download_vars, time_vars, thread_vars>>

ProgressNext == ReportProgress

SpecProgress == ProgressInit /\ [][ProgressNext]_vars

(***************************************************************************)
(* The user: cancellation may be requested before the call or at any       *)
(* moment while an operation runs.                                         *)
(***************************************************************************)
Cancel ==
  /\ ~cancelled
  /\ l_pc \notin {"idle", "done"} \/ d_pc \notin {"idle", "done"}
  /\ cancelled' = TRUE
  /\ UNCHANGED <<progress_range, progress_position, parse_vars, list_vars,
                 download_vars, time_vars, progress_vars, thread_vars>>

(***************************************************************************)
(* ReadFlightList against every device                                     *)
(***************************************************************************)
ListInit ==
  /\ cancelled \in BOOLEAN
  /\ progress_range = 0
  /\ progress_position = 0
  /\ ListIdle
  /\ ParseIdle
  /\ DownloadIdle
  /\ TimeIdle
  /\ ProgressIdle
  /\ ThreadsIdle

ListNext ==
  \/ CallReadFlightList
  \/ RFL_ListFull
  \/ RFL_SelectFlight
  \/ RFL_CheckSelect
  \/ RFL_ReadFlightInfo
  \/ Cancel

SpecList == ListInit /\ [][ListNext]_vars

\* the steps of ReadFlightList itself
ListStep ==
  \/ CallReadFlightList
  \/ RFL_ListFull
  \/ RFL_SelectFlight
  \/ RFL_CheckSelect
  \/ RFL_ReadFlightInfo

\* ReadFlightList runs on: every exchange returns (WaitForACKOrNACK and the
\* sends have timeouts) and the thread is not stopped, so a step that can be
\* taken is taken.  What the device answers and whether the user cancels stay
\* free.  Every step of ListStep changes l_pc.
SpecListFair == ListInit /\ [][ListNext]_vars /\ WF_l_pc(ListStep)

(***************************************************************************)
(* DownloadFlight against every device, sink and file at path              *)
(***************************************************************************)
DownloadInit ==
  /\ cancelled \in BOOLEAN
  /\ progress_range = 0
  /\ progress_position = 0
  /\ d_pc = "idle"
  /\ d_ack = "none"
  /\ d_result = "none"
  /\ file \in OldFiles
  /\ d_hist = [NoDownloadHistory EXCEPT !.file_before = file]
  /\ ListIdle
  /\ ParseIdle
  /\ TimeIdle
  /\ ProgressIdle
  /\ ThreadsIdle

DownloadNext ==
  \/ DF_SelectFlight
  \/ DF_CheckSelect
  \/ DF_OpenWriter
  \/ DF_SendRequest
  \/ DF_ReceiveChunk
  \/ Cancel

SpecDownload == DownloadInit /\ [][DownloadNext]_vars

(***************************************************************************)
(* Protection.cpp: CalculationThread, InstrumentThread and the callers of  *)
(* TriggerGPSUpdate, TriggerVarioUpdate.  Every read and every write of a  *)
(* shared flag is a step of its own; a wait on a Trigger returns when it   *)
(* is signalled or after its 5000 ms, so it can always return.             *)
(***************************************************************************)
logger_vars == <<env_vars, parse_vars, list_vars, download_vars, time_vars,
                 progress_vars>>

\* void TriggerGPSUpdate(): GpsUpdated = true; dataTriggerEvent.trigger();
TriggerGPSUpdate ==
  /\ calc_pc # "idle"
  /\ GpsUpdated' = TRUE
  /\ gps_hist' = [gps_hist EXCEPT !.unprocessed = TRUE]
  /\ UNCHANGED <<VarioUpdated, CLOSETHREAD, DisplayRunning, MapDirty, calc_pc,
                 needcalculationsslow, inst_pc, logger_vars>>

\* void TriggerVarioUpdate(): VarioUpdated = true; varioTriggerEvent.pulse();
TriggerVarioUpdate ==
  /\ inst_pc # "idle"
  /\ VarioUpdated' = TRUE
  /\ UNCHANGED <<GpsUpdated, CLOSETHREAD, DisplayRunning, MapDirty, calc_pc,
                 needcalculationsslow, inst_pc, gps_hist, logger_vars>>

\* the map window starts: MapWindow::IsDisplayRunning() becomes true
StartDisplay ==
  /\ calc_pc # "idle"
  /\ ~DisplayRunning
  /\ DisplayRunning' = TRUE
  /\ UNCHANGED <<GpsUpdated, VarioUpdated, CLOSETHREAD, MapDirty, calc_pc,
                 needcalculationsslow, inst_pc, gps_hist, logger_vars>>

\* shutdown: MapWindow::CLOSETHREAD is set
CloseThreads ==
  /\ calc_pc # "idle"
  /\ ~CLOSETHREAD
  /\ CLOSETHREAD' = TRUE
  /\ UNCHANGED <<GpsUpdated, VarioUpdated, DisplayRunning, MapDirty, calc_pc,
                 needcalculationsslow, inst_pc, gps_hist, logger_vars>>

\* what a step of CalculationThread leaves alone besides the flags it names
CalcFrame == UNCHANGED <<inst_pc, logger_vars>>

\* while (!MapWindow::IsDisplayRunning())
CT_Startup ==
  /\ calc_pc = "startup"
  /\ calc_pc' = IF DisplayRunning THEN "loop" ELSE "sleep"
  /\ UNCHANGED <<flag_vars, needcalculationsslow, gps_hist>>
  /\ CalcFrame

\* Sleep(100);
CT_Sleep ==
  /\ calc_pc = "sleep"
  /\ calc_pc' = "startup"
  /\ UNCHANGED <<flag_vars, needcalculationsslow, gps_hist>>
  /\ CalcFrame

\* while (!MapWindow::CLOSETHREAD)
CT_Loop ==
  /\ calc_pc = "loop"
  /\ calc_pc' = IF CLOSETHREAD THEN "returned" ELSE "wait"
  /\ UNCHANGED <<flag_vars, needcalculationsslow, gps_hist>>
  /\ CalcFrame

\* dataTriggerEvent.wait(5000);
CT_Wait ==
  /\ calc_pc = "wait"
  /\ calc_pc' = "woken"
  /\ UNCHANGED <<flag_vars, needcalculationsslow, gps_hist>>
  /\ CalcFrame

\* if (MapWindow::CLOSETHREAD) break;  (line 259)
CT_Woken ==
  /\ calc_pc = "woken"
  /\ calc_pc' = IF CLOSETHREAD THEN "returned" ELSE "copy"
  /\ UNCHANGED <<flag_vars, needcalculationsslow, gps_hist>>
  /\ CalcFrame

\* lines 262-274: the local copy of GPS_INFO and CALCULATED_INFO;
\* FLARM_RefreshSlots if GpsUpdated
CT_Copy ==
  /\ calc_pc = "copy"
  /\ calc_pc' = "vario"
  /\ UNCHANGED <<flag_vars, needcalculationsslow, gps_hist>>
  /\ CalcFrame

\* lines 277-293: DoCalculationsVario; without a vario and with GpsUpdated
\* set, TriggerVarioUpdate()
CT_Vario ==
  /\ calc_pc = "vario"
  /\ \E VarioAvailable \in BOOLEAN :
       VarioUpdated' = IF ~VarioAvailable /\ GpsUpdated THEN TRUE
                       ELSE VarioUpdated
  /\ calc_pc' = "calc"
  /\ UNCHANGED <<GpsUpdated, CLOSETHREAD, DisplayRunning, MapDirty,
                 needcalculationsslow, gps_hist>>
  /\ CalcFrame

\* lines 295-329: if (GpsUpdated) { if (DoCalculations(...)) { MapDirty =
\* true; needcalculationsslow = true; ... } InfoBoxesSetDirty(true); }
CT_Calculate ==
  /\ calc_pc = "calc"
  /\ IF GpsUpdated
     THEN /\ \E done \in BOOLEAN :
               /\ MapDirty' = (MapDirty \/ done)
               /\ needcalculationsslow' = (needcalculationsslow \/ done)
          /\ gps_hist' = [gps_hist EXCEPT !.unprocessed = FALSE]
     ELSE UNCHANGED <<MapDirty, needcalculationsslow, gps_hist>>
  /\ calc_pc' = "calculated"
  /\ UNCHANGED <<GpsUpdated, VarioUpdated, CLOSETHREAD, DisplayRunning>>
  /\ CalcFrame

\* if (MapWindow::CLOSETHREAD) break;  (line 331)
CT_Calculated ==
  /\ calc_pc = "calculated"
  /\ calc_pc' = IF CLOSETHREAD THEN "returned" ELSE "redraw"
  /\ UNCHANGED <<flag_vars, needcalculationsslow, gps_hist>>
  /\ CalcFrame

\* TriggerRedraws(): if (IsDisplayRunning()) if (GpsUpdated) { MapDirty =
\* true; drawTriggerEvent.pulse(); }
CT_TriggerRedraws ==
  /\ calc_pc = "redraw"
  /\ MapDirty' = (MapDirty \/ (DisplayRunning /\ GpsUpdated))
  /\ calc_pc' = "redrawn"
  /\ UNCHANGED <<GpsUpdated, VarioUpdated, CLOSETHREAD, DisplayRunning,
                 needcalculationsslow, gps_hist>>
  /\ CalcFrame

\* lines 335-346: if (CLOSETHREAD) break; if (needcalculationsslow) {
\* DoCalculationsSlow(...); needcalculationsslow = false; }
CT_Slow ==
  /\ calc_pc = "redrawn"
  /\ IF CLOSETHREAD
     THEN calc_pc' = "returned" /\ UNCHANGED needcalculationsslow
     ELSE calc_pc' = "slow" /\ needcalculationsslow' = FALSE
  /\ UNCHANGED <<flag_vars, gps_hist>>
  /\ CalcFrame

\* lines 348-355: if (CLOSETHREAD) break; CALCULATED_INFO is copied back
CT_CopyBack ==
  /\ calc_pc = "slow"
  /\ calc_pc' = IF CLOSETHREAD THEN "returned" ELSE "reset"
  /\ UNCHANGED <<flag_vars, needcalculationsslow, gps_hist>>
  /\ CalcFrame

\* GpsUpdated = false;  (line 357)
CT_Reset ==
  /\ calc_pc = "reset"
  /\ GpsUpdated' = FALSE
  /\ calc_pc' = "loop"
  /\ UNCHANGED <<VarioUpdated, CLOSETHREAD, DisplayRunning, MapDirty,
                 needcalculationsslow, gps_hist>>
  /\ CalcFrame

CalculationThread ==
  \/ CT_Startup
  \/ CT_Sleep
  \/ CT_Loop
  \/ CT_Wait
  \/ CT_Woken
  \/ CT_Copy
  \/ CT_Vario
  \/ CT_Calculate
  \/ CT_Calculated
  \/ CT_TriggerRedraws
  \/ CT_Slow
  \/ CT_CopyBack
  \/ CT_Reset

\* what a step of InstrumentThread leaves alone besides VarioUpdated
InstFrame ==
  UNCHANGED <<GpsUpdated, CLOSETHREAD, DisplayRunning, MapDirty, calc_pc,
              needcalculationsslow, gps_hist, logger_vars>>

\* while (!MapWindow::IsDisplayRunning())
IT_Startup ==
  /\ inst_pc = "startup"
  /\ inst_pc' = IF DisplayRunning THEN "loop" ELSE "sleep"
  /\ UNCHANGED VarioUpdated
  /\ InstFrame

\* Sleep(100);
IT_Sleep ==
  /\ inst_pc = "sleep"
  /\ inst_pc' = "startup"
  /\ UNCHANGED VarioUpdated
  /\ InstFrame

\* while (!MapWindow::CLOSETHREAD)
IT_Loop ==
  /\ inst_pc = "loop"
  /\ inst_pc' = IF CLOSETHREAD THEN "returned" ELSE "wait"
  /\ UNCHANGED VarioUpdated
  /\ InstFrame

\* varioTriggerEvent.wait(5000);
IT_Wait ==
  /\ inst_pc = "wait"
  /\ inst_pc' = "woken"
  /\ UNCHANGED VarioUpdated
  /\ InstFrame

\* if (MapWindow::CLOSETHREAD) break;  (line 227)
IT_Woken ==
  /\ inst_pc = "woken"
  /\ inst_pc' = IF CLOSETHREAD THEN "returned" ELSE "test"
  /\ UNCHANGED VarioUpdated
  /\ InstFrame

\* if (VarioUpdated)
IT_Test ==
  /\ inst_pc = "test"
  /\ inst_pc' = IF VarioUpdated THEN "clear" ELSE "loop"
  /\ UNCHANGED VarioUpdated
  /\ InstFrame

\* VarioUpdated = false; GaugeVario::Render() if the display runs
IT_Clear ==
  /\ inst_pc = "clear"
  /\ VarioUpdated' = FALSE
  /\ inst_pc' = "loop"
  /\ InstFrame

InstrumentThread ==
  \/ IT_Startup
  \/ IT_Sleep
  \/ IT_Loop
  \/ IT_Wait
  \/ IT_Woken
  \/ IT_Test
  \/ IT_Clear

\* CreateCalculationThread has started both threads
ThreadsInit ==
  /\ FlagsClear
  /\ calc_pc = "startup"
  /\ inst_pc = "startup"
  /\ EnvIdle
  /\ ParseIdle
  /\ ListIdle
  /\ DownloadIdle
  /\ TimeIdle
  /\ ProgressIdle

ThreadsNext ==
  \/ TriggerGPSUpdate
  \/ TriggerVarioUpdate
  \/ StartDisplay
  \/ CloseThreads
  \/ CT_Startup
  \/ CT_Sleep
  \/ CT_Loop
  \/ CT_Wait
  \/ CT_Woken
  \/ CT_Copy
  \/ CT_Vario
  \/ CT_Calculate
  \/ CT_Calculated
  \/ CT_TriggerRedraws
  \/ CT_Slow
  \/ CT_CopyBack
  \/ CT_Reset
  \/ IT_Startup
  \/ IT_Sleep
  \/ IT_Loop
  \/ IT_Wait
  \/ IT_Woken
  \/ IT_Test
  \/ IT_Clear

SpecThreads == ThreadsInit /\ [][ThreadsNext]_vars

\* Fair scheduling: a thread that can take a step takes one in the end (the
\* waits end after 5000 ms at the latest, Sleep(100) ends).  Nothing is
\* assumed of the callers of TriggerGPSUpdate and TriggerVarioUpdate, of the
\* map window or of the shutdown.
SpecThreadsFair ==
  /\ ThreadsInit
  /\ [][ThreadsNext]_vars
  /\ WF_calc_pc(CalculationThread)
  /\ WF_inst_pc(InstrumentThread)

(***************************************************************************)
(* Claims about ParseRecordInfo                                            *)
(***************************************************************************)
Date(y, m, d) == [year |-> y, month |-> m, day |-> d]

Time(h, m, s) == [hour |-> h, minute |-> m, second |-> s]

\* the two documented lines give the documented values
DocumentedLinesParse ==
  /\ p_line = Line6 =>
       p_flight = [ok |-> TRUE, date |-> Date(2011, 8, 12),
                   start_time |-> Time(12, 23, 48), end_time |-> Time(14, 27, 13)]
  /\ p_line = Line5 =>
       p_flight = [ok |-> TRUE, date |-> Date(2000, 11, 8),
                   start_time |-> Time(20, 5, 21), end_time |-> Time(21, 26, 30)]

HasLeadingFilename == FirstField(p_line) \in Filenames

\* C5 as stated: the two documented lines parse to the documented values,
\* and every line with a leading filename field parses to the same result
\* as the same line with that field removed.
C5_AsStated ==
  p_pc = "parsed" =>
    /\ DocumentedLinesParse
    /\ HasLeadingFilename => p_flight = ParseRecordInfo(WithoutFirstField(p_line))

\* C5 amended: the two documented lines parse to the documented values, and
\* a line whose leading filename field is longer than 10 characters parses
\* to the same result as the same line with that field removed, provided the
\* field behind it (the date field) is at most 10 characters long.
C5_FilenameIsDiscarded ==
  p_pc = "parsed" =>
    /\ DocumentedLinesParse
    /\ ( /\ HasLeadingFilename
         /\ Len(FirstField(p_line)) > 10
         /\ Len(FirstField(WithoutFirstField(p_line))) <= 10 )
       => p_flight = ParseRecordInfo(WithoutFirstField(p_line))

\* C5 witness: the 6-field line was parsed, and its filename was dropped
C5_Witness ==
  /\ p_pc = "parsed"
  /\ p_line = Line6
  /\ p_flight.ok
  /\ p_flight = ParseRecordInfo(WithoutFirstField(Line6))

(***************************************************************************)
(* Claims about ReadFlightList                                             *)
(***************************************************************************)
EndedByNack == l_pc = "done" /\ ack_result = MT_NACK

\* C1 as stated: ReadFlightList stops at the first NACK to SELECTRECORD with
\* success, and the list then holds as many entries as SELECTRECORD
\* exchanges were ACKed before that NACK.
C1_AsStated ==
  (EndedByNack /\ l_hist.n_acks < MaxCount) =>
    (l_result = TRUE /\ Len(flight_list) = l_hist.n_acks)

\* C1 amended: ReadFlightList stops at the first NACK to SELECTRECORD with
\* success, and the list then holds as many entries as there were ACKed
\* SELECTRECORD exchanges whose ReadFlightInfo succeeded, which is at most
\* the number of ACKs before that NACK.
C1_NackEndsWithReadRecords ==
  EndedByNack =>
    /\ l_result = TRUE
    /\ Len(flight_list) = l_hist.n_info_ok
    /\ l_hist.n_acks < MaxCount => Len(flight_list) <= l_hist.n_acks

\* C1 witness: NACK after two ACKs of which one record was read
C1_Witness ==
  /\ EndedByNack
  /\ l_result = TRUE
  /\ l_hist.n_acks = 2
  /\ Len(flight_list) = 1

\* C2 as stated: when cancellation is requested before ReadFlightList is
\* called, the list stays empty and neither SELECTRECORD nor GETRECORDINFO
\* is ever sent.
C2_AsStated ==
  l_hist.cancelled_at_call =>
    (flight_list = <<>> /\ l_hist.n_select = 0 /\ l_hist.n_info = 0)

\* C8 as stated: when a SELECTRECORD exchange ends in a timeout, or
\* cancellation has been requested when it ends, ReadFlightList returns
\* failure.
C8_AsStated ==
  (l_pc = "done" /\ ack_result # "none"
     /\ (ack_result = MT_ERROR \/ l_hist.cancel_at_check))
    => l_result = FALSE

\* C8 amended: when a SELECTRECORD exchange ends in a timeout or error, or
\* ends in ACK while cancellation is requested, ReadFlightList returns
\* failure and sends neither a GETRECORDINFO for that index nor a later
\* SELECTRECORD; a NACK ends it with success, also when cancellation is
\* requested; nothing is sent once it has returned.
C8_SelectOutcomeDecides ==
  [][ /\ (l_pc = "selected" /\ l_pc' # "selected") =>
           /\ (ack_result = MT_ERROR \/ (ack_result = MT_ACK /\ cancelled)) =>
                /\ l_pc' = "done"
                /\ l_result' = FALSE
                /\ l_hist'.n_info = l_hist.n_info
                /\ l_hist'.n_select = l_hist.n_select
           /\ ack_result = MT_NACK => (l_pc' = "done" /\ l_result' = TRUE)
           /\ (ack_result = MT_ACK /\ ~cancelled) => l_pc' = "info"
      /\ l_pc = "done" =>
           /\ l_pc' = "done"
           /\ l_result' = l_result
           /\ l_hist' = l_hist
           /\ flight_list' = flight_list ]_vars

\* C8 witness: a timeout after one ACKed index ended the call with failure
C8_Witness ==
  /\ l_pc = "done"
  /\ ack_result = MT_ERROR
  /\ l_result = FALSE
  /\ l_hist.n_acks = 1
  /\ l_hist.last_select = 1

\* C9: when ReadFlightInfo fails for the ACK-selected index i, nothing is
\* appended, ReadFlightList does not return, and the next exchange is the
\* SELECTRECORD for the next index (i + 1 in the uint8_t arithmetic of the
\* loop counter).
C9_FailedRecordIsSkipped ==
  [][ /\ (l_pc = "info" /\ l_pc' # "info"
            /\ l_hist'.n_info_ok = l_hist.n_info_ok) =>
           /\ flight_list' = flight_list
           /\ i' = (i + 1) % 256
           /\ l_pc' = "loop"
           /\ l_result' = l_result
           /\ ~ListFull'
      /\ (l_pc = "loop" /\ ~ListFull /\ l_pc' # "loop") =>
           /\ l_pc' = "selected"
           /\ i' = i
           /\ l_hist'.last_select = i \/ ack_result' = MT_ERROR ]_vars

\* C9 witness: record 0 was ACKed and could not be read, the list is still
\* empty and SELECTRECORD for record 1 has been sent
C9_Witness ==
  /\ l_pc = "selected"
  /\ i = 1
  /\ flight_list = <<>>
  /\ l_hist.n_acks = 1
  /\ l_hist.n_info_ok = 0
  /\ l_hist.last_select = 1

(***************************************************************************)
(* Claims about DownloadFlight                                             *)
(***************************************************************************)
RECURSIVE ConcatData(_)
ConcatData(cs) ==
  IF cs = <<>> THEN <<>> ELSE From(Head(cs), 4) \o ConcatData(Tail(cs))

RECURSIVE SumDataLengths(_)
SumDataLengths(cs) ==
  IF cs = <<>> THEN 0 ELSE (Len(Head(cs)) - 3) + SumDataLengths(Tail(cs))

WithoutLast(s) == SubSeq(s, 1, Len(s) - 1)

Returned(v) == d_pc = "done" /\ d_result = v

\* C3: when DownloadFlight returns failure after the sink at path was
\* opened, nothing exists at path any more.
C3_FailedDownloadLeavesNoFile ==
  (Returned(FALSE) /\ d_hist.sink_opened) => ~file.exists

\* C3 witness: a failure after two chunks were written
C3_Witness ==
  /\ Returned(FALSE)
  /\ d_hist.sink_opened
  /\ Len(d_hist.chunks) = 2
  /\ Len(d_hist.handed) >= 2
  /\ ~d_hist.write_failed
  /\ ~file.exists

\* C4: a download that runs to the chunk ending in the sentinel hands to
\* the sink exactly payload[3..] of every chunk in order, without the final
\* sentinel byte; the length is the sum of the effective data lengths; the
\* sentinel chunk is the last request; and the file holds these bytes when
\* every write went through.
C4_SinkGetsDataWithoutSentinel ==
  LET cs == d_hist.chunks
  IN  /\ (\E k \in 1..Len(cs) : LastByte(cs[k]) = Sentinel) => Returned(TRUE)
      /\ Returned(TRUE) =>
           /\ cs # <<>>
           /\ LastByte(cs[Len(cs)]) = Sentinel
           /\ \A k \in 1..(Len(cs) - 1) : LastByte(cs[k]) # Sentinel
           /\ d_hist.handed = WithoutLast(ConcatData(cs))
           /\ Len(d_hist.handed) = SumDataLengths(cs) - 1
           /\ d_hist.n_igc = Len(cs)
           /\ ~d_hist.write_failed =>
                file = [exists |-> TRUE, content |-> d_hist.handed]

\* C4 witness: a download of three chunks that ended at the sentinel
C4_Witness ==
  /\ Returned(TRUE)
  /\ Len(d_hist.chunks) = 3
  /\ Len(d_hist.handed) >= 3
  /\ ~d_hist.write_failed
  /\ file.content = d_hist.handed

\* C6: when SELECTRECORD is not answered with ACK, no sink is opened, path
\* is left as it was, no GETIGCDATA is sent and the call returns failure.
C6_NoDownloadWithoutSelect ==
  d_ack \in {MT_NACK, MT_ERROR} =>
    /\ ~d_hist.sink_opened
    /\ file = d_hist.file_before
    /\ d_hist.n_igc = 0
    /\ d_pc \in {"selected", "done"}
    /\ d_pc = "done" => d_result = FALSE

\* C6 witness: a NACKed selection ended the call
C6_Witness ==
  /\ Returned(FALSE)
  /\ d_ack = MT_NACK
  /\ d_hist.n_select = 1
  /\ d_hist.n_igc = 0

\* C7 as stated: DownloadFlight transmits no request (SELECTRECORD or
\* GETIGCDATA) in a state where cancellation is already requested.
C7_AsStated == ~d_hist.sent_while_cancelled

\* C10 as stated: when DownloadFlight returns success the file holds every
\* effective data byte of every chunk in order, and a failed write never
\* ends in a success return.
C10_AsStated ==
  Returned(TRUE) =>
    /\ ~d_hist.write_failed
    /\ file = [exists |-> TRUE,
               content |-> WithoutLast(ConcatData(d_hist.chunks))]

(***************************************************************************)
(* Claims about the outcome reported to the caller                         *)
(***************************************************************************)
\* ReadFlightList returned at line 291 because SELECTRECORD was acknowledged
\* and env.IsCancelled() was true
CancelledReturn ==
  /\ l_pc = "done"
  /\ ack_result = MT_ACK
  /\ l_hist.cancel_at_check

\* ReadFlightList returned at line 291 because SELECTRECORD timed out or could
\* not be sent
TimedOutReturn ==
  /\ l_pc = "done"
  /\ ack_result = MT_ERROR

\* what a call that timed out reports
TimedOutReturnsFalse == TimedOutReturn => l_result = FALSE

\* C11 as stated: the outcome reported when the user cancelled is not the
\* outcome reported for a timeout (which is false)
C11_AsStated == CancelledReturn => l_result # FALSE

(***************************************************************************)
(* Claims about the replies to GETIGCDATA                                  *)
(***************************************************************************)
\* the step in which DownloadFlight has the reply to its GETIGCDATA request
ReplyStep == d_pc = "wait" /\ d_pc' # "wait"

\* the reply of that step is a timeout, a NACK, an ACK with a payload of at
\* most 3 bytes, or it comes while cancellation is requested
BadReply ==
  \/ d_hist'.reply.result # MT_ACK
  \/ d_hist'.reply.length <= 3
  \/ cancelled

\* C12: a GETIGCDATA exchange that times out, is not acknowledged, is
\* acknowledged with a payload of at most 3 bytes, or at which cancellation is
\* seen, ends the download: failure is returned, nothing of that reply is
\* handed to the sink or left in the file, and no GETIGCDATA is sent afterwards
C12_BadReplyIsFatal ==
  [][ /\ (ReplyStep /\ BadReply) =>
           /\ d_pc' = "done"
           /\ d_result' = FALSE
           /\ d_hist'.handed = d_hist.handed
           /\ d_hist'.chunks = d_hist.chunks
           /\ file'.content = <<>>
      /\ (d_pc = "request" /\ cancelled /\ d_pc' # "request") =>
           d_pc' = "done" /\ d_result' = FALSE
      /\ d_pc = "done" => d_hist'.n_igc = d_hist.n_igc ]_vars

\* a download that took one chunk and failed on a three-byte ACK after it
C12_Witness ==
  /\ d_pc = "done"
  /\ d_result = FALSE
  /\ Len(d_hist.chunks) >= 1
  /\ d_hist.reply = [result |-> MT_ACK, length |-> 3]
  /\ ~cancelled

(***************************************************************************)
(* Claims about operator+                                                  *)
(***************************************************************************)
TotalSeconds(t) == (t.hour * 60 + t.minute) * 60 + t.second

\* C13 as stated: for start and duration with minute and second in 0..59 the
\* end time is start + duration in total seconds, with second < 60 and
\* minute < 60 (the hour is not reduced)
C13_AsStated ==
  t_pc = "added" =>
    /\ TotalSeconds(t_end) = TotalSeconds(t_start) + TotalSeconds(t_duration)
    /\ t_end.second < 60
    /\ t_end.minute < 60

(***************************************************************************)
(* Claims about a send that fails                                          *)
(***************************************************************************)
\* C14 as stated: once a send has failed in an exchange of ReadFlightList
\* (SELECTRECORD, or GETRECORDINFO inside ReadFlightInfo) no further exchange
\* is sent and the call returns failure
C14_AsStated ==
  /\ ~l_hist.sent_after_send_failure
  /\ (l_pc = "done" /\ l_hist.send_failed) => l_result = FALSE

(***************************************************************************)
(* Claims about the record indices                                         *)
(***************************************************************************)
\* C15 as stated: the indices sent with SELECTRECORD in one call of
\* ReadFlightList are 0, 1, 2, ...: each is one greater than the one sent
\* before it (the first is 0), so none is sent twice
C15_AsStated ==
  [][ l_hist'.last_select # l_hist.last_select =>
        l_hist'.last_select = l_hist.last_select + 1 ]_vars

(***************************************************************************)
(* Claims about the first field of the metadata line                       *)
(***************************************************************************)
\* the line parsed with its first field taken as the date
FirstFieldAsDate(line) ==
  ParseFields(FirstField(line), WithoutFirstField(line))

\* the line parsed with its first field dropped and its second taken as the
\* date
SecondFieldAsDate(line) ==
  IF StrChr(WithoutFirstField(line), "|") = 0
  THEN Unparsed
  ELSE FirstFieldAsDate(WithoutFirstField(line))

\* C16: ParseRecordInfo drops the first field as a filename exactly when it
\* is longer than 10 characters; a first field of at most 10 characters (a
\* 10-character date among them) is always the field parsed as the date
C16_FilenameIffLongerThanTen ==
  p_pc = "parsed" =>
    IF Len(FirstField(p_line)) > 10
    THEN /\ p_flight = SecondFieldAsDate(p_line)
         /\ p_flight.ok =>
              p_flight.date = ParseDate(FirstField(WithoutFirstField(p_line))).date
    ELSE /\ p_flight = FirstFieldAsDate(p_line)
         /\ p_flight.ok => p_flight.date = ParseDate(FirstField(p_line)).date
         /\ ~ParseDate(FirstField(p_line)).ok => ~p_flight.ok

\* a line that starts with a 10-character date was parsed with that date
C16_Witness ==
  /\ p_pc = "parsed"
  /\ Len(FirstField(p_line)) = 10
  /\ p_flight.ok
  /\ p_flight.date = ParseDate(FirstField(p_line)).date

(***************************************************************************)
(* Claims about malformed fields                                           *)
(***************************************************************************)
\* a non-empty run of decimal digits
IsNumber(s) == Len(s) > 0 /\ \A k \in 1..Len(s) : IsDigit(s[k])

ExactPair(s, k) ==
  /\ k # 0
  /\ IsNumber(SubSeq(s, 1, k - 1))
  /\ IsNumber(From(s, k + 1))

\* field is exactly number sep number sep number
ExactTriple(field, sep, k) ==
  /\ k # 0
  /\ IsNumber(SubSeq(field, 1, k - 1))
  /\ ExactPair(From(field, k + 1), StrChr(From(field, k + 1), sep))

\* the line from its date field on
FromDateField(line) ==
  IF Len(FirstField(line)) > 10 THEN WithoutFirstField(line) ELSE line

DateField(line) == FirstField(FromDateField(line))

StartField(line) == FirstField(WithoutFirstField(FromDateField(line)))

DurationField(line) ==
  FirstField(WithoutFirstField(WithoutFirstField(FromDateField(line))))

Malformed(line) ==
  \/ ~ExactTriple(DateField(line), "-", StrChr(DateField(line), "-"))
  \/ ~ExactTriple(StartField(line), ":", StrChr(StartField(line), ":"))
  \/ ~ExactTriple(DurationField(line), ":", StrChr(DurationField(line), ":"))

\* C17 as stated: ParseRecordInfo reports failure for every line whose date
\* field is not exactly number-number-number or whose start-time or duration
\* field is not exactly number:number:number
C17_AsStated ==
  (p_pc = "parsed" /\ Malformed(p_line)) => ~p_flight.ok

(***************************************************************************)
(* Claims about the flight list                                            *)
(***************************************************************************)
\* C18: the flight list never holds more than its capacity and no
\* SELECTRECORD goes out once it is full; an entry is only ever added at the
\* end, and it carries the index whose SELECTRECORD was acknowledged just
\* before the GETRECORDINFO that gave the entry
C18_ListBoundedAndInOrder ==
  [][ /\ Len(flight_list') <= MaxFlights
      /\ (l_pc = "loop" /\ l_pc' = "selected") => Len(flight_list) < MaxFlights
      /\ flight_list' # flight_list =>
           /\ l_pc = "info"
           /\ ack_result = MT_ACK
           /\ Len(flight_list') = Len(flight_list) + 1
           /\ SubSeq(flight_list', 1, Len(flight_list)) = flight_list
           /\ flight_list'[Len(flight_list')].flarm = l_hist.last_select ]_vars

\* the call returned with a full list that holds records 0 and 1 in this order
C18_Witness ==
  /\ l_pc = "done"
  /\ l_result = TRUE
  /\ Len(flight_list) = MaxFlights
  /\ flight_list[1].flarm = 0
  /\ flight_list[2].flarm = 1

(***************************************************************************)
(* Claims about the progress reports                                       *)
(***************************************************************************)
\* during a download the range is 100 from the first request on and the
\* position stays within it
DownloadProgressWithinRange ==
  d_pc \in {"request", "wait"} =>
    /\ progress_range = 100
    /\ progress_position \in 0..100

\* C19: for every value 0..255 of payload byte 2 the position reported for a
\* chunk is the smaller of that byte and 100, so it lies in 0..100, within the
\* range of 100
C19_ProgressIsClamped ==
  g_pc = "reported" =>
    /\ progress_range = 100
    /\ progress_position \in 0..progress_range
    /\ progress_position = (IF g_progress <= 100 THEN g_progress ELSE 100)

\* the byte 255 was reported as position 100
C19_Witness ==
  /\ g_pc = "reported"
  /\ g_progress = 255
  /\ progress_position = 100

(***************************************************************************)
(* Claims about termination                                                *)
(***************************************************************************)
\* C20 as stated: when every exchange returns, every call of ReadFlightList
\* returns in the end, whatever the device answers
C20_AsStated == (l_pc = "loop") ~> (l_pc = "done")

(***************************************************************************)
(* Claims about a sink that cannot be opened                               *)
(***************************************************************************)
\* DownloadFlight returned without a sink of its own: SELECTRECORD failed, or
\* the BinaryWriter could not be opened
ReturnedWithoutSink == d_pc = "done" /\ ~d_hist.sink_opened

\* C21 as stated: when the sink cannot be opened DownloadFlight returns
\* failure without any GETIGCDATA request and leaves what was at path as it
\* was; File::Delete is called only after a sink that this call opened
C21_AsStated ==
  ReturnedWithoutSink =>
    /\ d_result = FALSE
    /\ d_hist.n_igc = 0
    /\ file = d_hist.file_before
    /\ ~d_hist.deleted

(***************************************************************************)
(* Claims about the threads of Protection.cpp                              *)
(***************************************************************************)
\* C22 as stated: no GPS update is lost: GpsUpdated is never reset to false
\* while an update is waiting that no pass of CalculationThread has seen at
\* its test before DoCalculations
C22_AsStated ==
  [][ (GpsUpdated /\ ~GpsUpdated') => ~gps_hist.unprocessed ]_vars

\* C23 as stated: once MapWindow::CLOSETHREAD is set, CalculationThread and
\* InstrumentThread each eventually return, whether or not the display has
\* started running.  Both threads are scheduled fairly and every trigger wait
\* comes back (signalled or after 5000 ms).
ThreadsReturned == calc_pc = "returned" /\ inst_pc = "returned"

C23_AsStated ==
  CLOSETHREAD ~> ThreadsReturned

====
